---------------------------- MODULE Spec2Model ----------------------------
(***************************************************************************)
(* wandr.ai (src/main.py): the text recovery parser parse_json and the     *)
(* two-call orchestration of POST /api/plan.                               *)
(*                                                                         *)
(* A text is a sequence of one-character strings.  The characters of the   *)
(* model are the JSON punctuation, the double quote, the backtick, space   *)
(* and newline, the digits and lower-case letters; the backslash, '.',     *)
(* '+' and upper-case letters do not occur in any text of the model, so    *)
(* string escapes, fractions and exponents are not part of the decoder.    *)
(***************************************************************************)
EXTENDS Integers, Sequences, FiniteSets, TLC

(***************************************************************************)
(* Characters                                                              *)
(***************************************************************************)
QUOTE == "\""
\* The backtick: SANY cannot read it inside a string, so the character is named.
TICK == "BACKTICK"
NL == "\n"
EOF == ""

\* str.strip(), the regex class \s and json's whitespace agree on the
\* whitespace characters of the model: space and newline.
WS == {" ", NL}

\* Control characters json.loads (strict) refuses inside a string literal.
ControlChars == {NL}

DigitChars == <<"0", "1", "2", "3", "4", "5", "6", "7", "8", "9">>

IsDigit(c) == \E d \in 1..10 : DigitChars[d] = c

DigitVal(c) == (CHOOSE d \in 1..10 : DigitChars[d] = c) - 1

CharAt(s, i) == IF i >= 1 /\ i <= Len(s) THEN s[i] ELSE EOF

SetMin(S) == CHOOSE x \in S : \A y \in S : x <= y

SetMax(S) == CHOOSE x \in S : \A y \in S : x >= y

\* s[i:] of Python, with i a 1-based position.
From(s, i) == SubSeq(s, i, Len(s))

\* s[i:i+len(w)] == w
HasAt(s, i, w) == /\ i >= 1
                  /\ i + Len(w) - 1 <= Len(s)
                  /\ \A k \in 1..Len(w) : s[i + k - 1] = w[k]

(***************************************************************************)
(* Decoded JSON values.  Every value is a record of the same shape, so     *)
(* that deep equality of two values is equality of the records.  An object *)
(* keeps its keys in insertion order, as a Python dict does.               *)
(***************************************************************************)
JNull == [t |-> "null", n |-> 0, s |-> <<>>, keys |-> <<>>, kids |-> <<>>]

JBool(b) == [t |-> "bool", n |-> IF b THEN 1 ELSE 0, s |-> <<>>, keys |-> <<>>, kids |-> <<>>]

JNum(k) == [t |-> "num", n |-> k, s |-> <<>>, keys |-> <<>>, kids |-> <<>>]

JStr(cs) == [t |-> "str", n |-> 0, s |-> cs, keys |-> <<>>, kids |-> <<>>]

JArr(vs) == [t |-> "arr", n |-> 0, s |-> <<>>, keys |-> <<>>, kids |-> vs]

JObj(ks, vs) == [t |-> "obj", n |-> 0, s |-> <<>>, keys |-> ks, kids |-> vs]

EmptyObj == JObj(<<>>, <<>>)

\* dict[key] = value: a repeated key keeps its place and takes the new value.
DictPut(obj, key, val) ==
    IF \E i \in 1..Len(obj.keys) : obj.keys[i] = key
    THEN LET i == CHOOSE i \in 1..Len(obj.keys) : obj.keys[i] = key
         IN  JObj(obj.keys, [obj.kids EXCEPT ![i] = val])
    ELSE JObj(Append(obj.keys, key), Append(obj.kids, val))

DictHas(obj, key) == \E i \in 1..Len(obj.keys) : obj.keys[i] = key

DictAt(obj, key) == obj.kids[CHOOSE i \in 1..Len(obj.keys) : obj.keys[i] = key]

(***************************************************************************)
(* json.loads: a decoder of the whole text.  A scan returns the value and  *)
(* the position after it, or fails.                                        *)
(***************************************************************************)
ScanFail == [ok |-> FALSE, val |-> JNull, end |-> 0]

ScanOk(v, e) == [ok |-> TRUE, val |-> v, end |-> e]

RECURSIVE SkipWS(_, _)
SkipWS(s, i) == IF i <= Len(s) /\ s[i] \in WS THEN SkipWS(s, i + 1) ELSE i

\* The string literal whose opening quote is at i - 1.
ScanString(s, i) ==
    LET closing == {j \in i..Len(s) : s[j] = QUOTE}
    IN  IF closing = {} THEN ScanFail
        ELSE LET j == SetMin(closing)
             IN  IF \E k \in i..(j - 1) : s[k] \in ControlChars THEN ScanFail
                 ELSE ScanOk(JStr(SubSeq(s, i, j - 1)), j + 1)

RECURSIVE DigitsEnd(_, _)
DigitsEnd(s, i) == IF IsDigit(CharAt(s, i)) THEN DigitsEnd(s, i + 1) ELSE i

RECURSIVE DigitsVal(_, _, _, _)
DigitsVal(s, i, e, acc) ==
    IF i >= e THEN acc ELSE DigitsVal(s, i + 1, e, 10 * acc + DigitVal(s[i]))

\* NUMBER_RE: -?(0|[1-9][0-9]*), the integer part.
ScanNumber(s, i) ==
    LET neg == CharAt(s, i) = "-"
        d == IF neg THEN i + 1 ELSE i
    IN  IF ~IsDigit(CharAt(s, d)) THEN ScanFail
        ELSE LET e == IF s[d] = "0" THEN d + 1 ELSE DigitsEnd(s, d)
                 v == DigitsVal(s, d, e, 0)
             IN  ScanOk(JNum(IF neg THEN 0 - v ELSE v), e)

RECURSIVE ScanValue(_, _)
RECURSIVE ScanMembers(_, _, _)
RECURSIVE ScanElements(_, _, _)

\* JSONObject's loop; the opening quote of the next key is at i.
ScanMembers(s, i, obj) ==
    LET k == ScanString(s, i + 1)
    IN  IF ~k.ok THEN ScanFail
        ELSE
        LET c == SkipWS(s, k.end)
        IN  IF CharAt(s, c) # ":" THEN ScanFail
            ELSE
            LET v == ScanValue(s, SkipWS(s, c + 1))
            IN  IF ~v.ok THEN ScanFail
                ELSE
                LET e == SkipWS(s, v.end)
                    obj2 == DictPut(obj, k.val.s, v.val)
                IN  IF CharAt(s, e) = "}" THEN ScanOk(obj2, e + 1)
                    ELSE IF CharAt(s, e) # "," THEN ScanFail
                    ELSE LET q == SkipWS(s, e + 1)
                         IN  IF CharAt(s, q) # QUOTE THEN ScanFail
                             ELSE ScanMembers(s, q, obj2)

\* JSONArray's loop; the next element starts at i.
ScanElements(s, i, vs) ==
    LET v == ScanValue(s, i)
    IN  IF ~v.ok THEN ScanFail
        ELSE
        LET e == SkipWS(s, v.end)
            vs2 == Append(vs, v.val)
        IN  IF CharAt(s, e) = "]" THEN ScanOk(JArr(vs2), e + 1)
            ELSE IF CharAt(s, e) # "," THEN ScanFail
            ELSE ScanElements(s, SkipWS(s, e + 1), vs2)

\* scan_once
ScanValue(s, i) ==
    LET c == CharAt(s, i)
    IN  CASE c = QUOTE -> ScanString(s, i + 1)
          [] c = "{" ->
                LET q == SkipWS(s, i + 1)
                IN  IF CharAt(s, q) = "}" THEN ScanOk(EmptyObj, q + 1)
                    ELSE IF CharAt(s, q) # QUOTE THEN ScanFail
                    ELSE ScanMembers(s, q, EmptyObj)
          [] c = "[" ->
                LET q == SkipWS(s, i + 1)
                IN  IF CharAt(s, q) = "]" THEN ScanOk(JArr(<<>>), q + 1)
                    ELSE ScanElements(s, q, <<>>)
          [] c = "n" /\ HasAt(s, i, <<"n", "u", "l", "l">>) -> ScanOk(JNull, i + 4)
          [] c = "t" /\ HasAt(s, i, <<"t", "r", "u", "e">>) -> ScanOk(JBool(TRUE), i + 4)
          [] c = "f" /\ HasAt(s, i, <<"f", "a", "l", "s", "e">>) -> ScanOk(JBool(FALSE), i + 5)
          [] OTHER -> ScanNumber(s, i)

\* json.loads(s): one value, whitespace around it, nothing else.
Loads(s) ==
    LET r == ScanValue(s, SkipWS(s, 1))
    IN  IF r.ok /\ SkipWS(s, r.end) = Len(s) + 1 THEN r ELSE ScanFail

(***************************************************************************)
(* json.dumps with the default separators, and str() as an f-string        *)
(* applies it.                                                             *)
(***************************************************************************)
RECURSIVE NatChars(_)
NatChars(k) == IF k < 10 THEN <<DigitChars[k + 1]>>
               ELSE NatChars(k \div 10) \o <<DigitChars[(k % 10) + 1]>>

IntChars(k) == IF k < 0 THEN <<"-">> \o NatChars(0 - k) ELSE NatChars(k)

RECURSIVE Dumps(_)
RECURSIVE DumpsItems(_, _)
RECURSIVE DumpsPairs(_, _)

DumpsItems(vs, i) ==
    IF i > Len(vs) THEN <<>>
    ELSE (IF i > 1 THEN <<",", " ">> ELSE <<>>) \o Dumps(vs[i]) \o DumpsItems(vs, i + 1)

DumpsPairs(obj, i) ==
    IF i > Len(obj.keys) THEN <<>>
    ELSE (IF i > 1 THEN <<",", " ">> ELSE <<>>)
         \o <<QUOTE>> \o obj.keys[i] \o <<QUOTE, ":", " ">> \o Dumps(obj.kids[i])
         \o DumpsPairs(obj, i + 1)

Dumps(v) ==
    CASE v.t = "null" -> <<"n", "u", "l", "l">>
      [] v.t = "bool" -> IF v.n = 1 THEN <<"t", "r", "u", "e">> ELSE <<"f", "a", "l", "s", "e">>
      [] v.t = "num" -> IntChars(v.n)
      [] v.t = "str" -> <<QUOTE>> \o v.s \o <<QUOTE>>
      [] v.t = "arr" -> <<"[">> \o DumpsItems(v.kids, 1) \o <<"]">>
      [] v.t = "obj" -> <<"{">> \o DumpsPairs(v, 1) \o <<"}">>

(***************************************************************************)
(* parse_json (src/main.py:58-66)                                          *)
(***************************************************************************)
FENCE == <<TICK, TICK, TICK>>

FENCE_JSON == FENCE \o <<"j", "s", "o", "n">>

\* str.strip()
Strip(s) ==
    LET keep == {i \in 1..Len(s) : s[i] \notin WS}
    IN  IF keep = {} THEN <<>> ELSE SubSeq(s, SetMin(keep), SetMax(keep))

\* re.sub(marker + r'\s*', '', s), from position i on: every leftmost
\* occurrence of the marker goes, with the whitespace that follows it.
RECURSIVE SubFence(_, _, _)
SubFence(s, i, marker) ==
    LET hits == {j \in i..Len(s) : HasAt(s, j, marker)}
    IN  IF hits = {} THEN SubSeq(s, i, Len(s))
        ELSE LET j == SetMin(hits)
             IN  SubSeq(s, i, j - 1) \o SubFence(s, SkipWS(s, j + Len(marker)), marker)

\* Lines 59-60.
StripFences(arg) == Strip(SubFence(SubFence(Strip(arg), 1, FENCE_JSON), 1, FENCE))

\* Line 61: the position of the first '{' or '[', the start of the text
\* when there is none.
Start(t) ==
    LET opens == {i \in 1..Len(t) : t[i] \in {"{", "["}}
    IN  IF opens = {} THEN 1 ELSE SetMin(opens)

\* A decoder that takes the text from the start to the first '}' after it.
FirstCloseDecode(t) ==
    LET closes == {j \in 1..Len(t) : j > Start(t) /\ t[j] = "}"}
    IN  IF closes = {} THEN Loads(From(t, Start(t)))
        ELSE Loads(SubSeq(t, Start(t), SetMin(closes)))

\* Line 63: json.loads(text[start:]).
DirectDecode(t) == Loads(From(t, Start(t)))

\* A span that stops at the first '}' after the leftmost '{' (a lazy .*?).
LazySpan(t) ==
    LET opens == {i \in 1..Len(t) : t[i] = "{"}
        first == SetMin(opens)
        closes == {j \in 1..Len(t) : j > first /\ t[j] = "}"}
    IN  IF opens = {} \/ closes = {} THEN [found |-> FALSE, span |-> <<>>]
        ELSE [found |-> TRUE, span |-> SubSeq(t, first, SetMin(closes))]

\* Line 65: re.search(r'\{.*\}', text, re.DOTALL): the leftmost '{' through
\* the rightmost '}' after it.
GreedySpan(t) ==
    LET opens == {i \in 1..Len(t) : t[i] = "{"}
        first == SetMin(opens)
        closes == {j \in 1..Len(t) : j > first /\ t[j] = "}"}
    IN  IF opens = {} \/ closes = {} THEN [found |-> FALSE, span |-> <<>>]
        ELSE [found |-> TRUE, span |-> SubSeq(t, first, SetMax(closes))]

Return(v) == [kind |-> "return", val |-> v]

\* An exception leaves the function (json.JSONDecodeError).
Raise == [kind |-> "raise", val |-> JNull]

\* Line 66, inside the except block: nothing catches what json.loads raises
\* here.
SpanFallback(t) ==
    LET m == GreedySpan(t)
    IN  IF ~m.found THEN Return(EmptyObj)
        ELSE LET g == Loads(m.span)
             IN  IF g.ok THEN Return(g.val) ELSE Raise

ParseJson(arg) ==
    LET t == StripFences(arg)
        d == DirectDecode(t)
    IN  IF d.ok THEN Return(d.val) ELSE SpanFallback(t)

(***************************************************************************)
(* State.  parse_json is a pure function; to check it on its own, one call *)
(* of it is run step by step on an argument drawn at the start (given says *)
(* how the argument was built).  The other variables are the environment   *)
(* and the requests of POST /api/plan.                                     *)
(***************************************************************************)
VARIABLES
    given,        \* how arg was built: its form and the parts it was built from
    arg,          \* parse_json's argument
    text,         \* parse_json's local text, after lines 59-60
    ppc,          \* parse_json's position: "strip", "decode", "except", "done"
    ret,          \* parse_json's outcome: a returned value or an exception
    env_key,      \* os.environ's ANTHROPIC_API_KEY
    message,      \* req.message of each request
    pc,           \* each request's position in plan()
    intent_text,  \* intent_msg.content[0].text
    intent,       \* the value parse_json recovered from it
    prompt,       \* the user content of the second call
    plan_text,    \* plan_msg.content[0].text
    plan_data,    \* the value parse_json recovered from it
    calls,        \* client.messages.create calls each request has issued
    response,     \* what each request answered
    get_path,     \* the path of the last GET request
    get_resp,     \* what the last GET request answered
    ta,           \* the page: value of the textarea #ta
    send_disabled,\* the page: #sendBtn.disabled
    thinking,     \* the page: whether the thinking indicator is in the document
    fetches,      \* the page: the invocations of go() that reached fetch
    total,        \* a card: total of renderCard
    tab,          \* a card: the tab whose pane is shown
    splitState,   \* a card: splitState[uid]
    si,           \* a card: value of the split pane's name input
    pane          \* a card: what the split pane displays

pvars == <<given, arg, text, ppc, ret>>

ovars == <<env_key, message, pc, intent_text, intent, prompt, plan_text, plan_data,
           calls, response>>

hvars == <<get_path, get_resp>>

gvars == <<ta, send_disabled, thinking, fetches>>

svars == <<total, tab, splitState, si, pane>>

vars == <<given, arg, text, ppc, ret, env_key, message, pc, intent_text, intent,
          prompt, plan_text, plan_data, calls, response, get_path, get_resp,
          ta, send_disabled, thinking, fetches, total, tab, splitState, si, pane>>

(***************************************************************************)
(* Arguments of parse_json.                                                *)
(***************************************************************************)
\* Bound: the length of the texts enumerated in full.
MaxLen == 3

\* Bound: the number of words of a leading or trailing prose.
MaxProse == 1

EnumChars == {"{", "}", "[", "]", QUOTE, "1", " ", "a"}

ShortTexts == UNION {[1..k -> EnumChars] : k \in 0..MaxLen}

\* Texts that decode to a primitive, and texts with no brace or bracket.
PlainTexts == {
    <<"n", "u", "l", "l">>,
    <<"t", "r", "u", "e">>,
    <<"1", "2">>,
    <<" ", "-", "7", NL>>,
    <<QUOTE, "h", "i", QUOTE>>,
    <<"h", "i", " ", "}">>,
    <<"n", "u", "l">>,
    FENCE \o <<NL, "3", NL>> \o FENCE }

ProseWords == {<<"a">>, <<" ">>, <<"{">>, <<"}">>, <<"[">>, <<"]">>, FENCE}

RECURSIVE Flat(_)
Flat(ws) == IF ws = <<>> THEN <<>> ELSE Head(ws) \o Flat(Tail(ws))

Prose == {Flat(ws) : ws \in UNION {[1..k -> ProseWords] : k \in 0..MaxProse}}

KeyA == <<"a">>

KeyB == <<"b">>

\* JSON objects; the string values hold braces, a bracket and a fence.
Objects == {
    EmptyObj,
    JObj(<<KeyA>>, <<JNum(1)>>),
    JObj(<<KeyA>>, <<JStr(<<"{">>)>>),
    JObj(<<KeyA>>, <<JStr(<<"}", "]">>)>>),
    JObj(<<KeyA>>, <<JStr(<<"x">> \o FENCE \o <<" ", "y">>)>>),
    JObj(<<KeyA>>, <<JStr(<<"{">> \o FENCE \o <<"}">>)>>),
    JObj(<<KeyA, KeyB>>, <<JArr(<<JNum(1), JNull>>), JObj(<<KeyA>>, <<JBool(TRUE)>>)>>) }

NoFence == <<>>

\* The opening and the closing fence of a wrapped object.
Wraps == {
    <<NoFence, NoFence>>,
    <<FENCE_JSON \o <<NL>>, <<NL>> \o FENCE>>,
    <<FENCE \o <<NL>>, <<NL>> \o FENCE>> }

Separators == {<<>>, <<" ">>, <<NL>>, <<",", " ">>}

NoGiven == [form |-> "none", lead |-> <<>>, open |-> <<>>, obj |-> JNull,
            close |-> <<>>, trail |-> <<>>, obj2 |-> JNull]

AnyGiven == [NoGiven EXCEPT !.form = "any"]

Wrapped(lead, w, J, trail) ==
    [form |-> "wrapped", lead |-> lead, open |-> w[1], obj |-> J,
     close |-> w[2], trail |-> trail, obj2 |-> JNull]

Siblings(J1, sep, J2) ==
    [form |-> "siblings", lead |-> <<>>, open |-> <<>>, obj |-> J1,
     close |-> <<>>, trail |-> sep, obj2 |-> J2]

\* The text a description stands for.
Build(g) ==
    CASE g.form = "wrapped" -> g.lead \o g.open \o Dumps(g.obj) \o g.close \o g.trail
      [] g.form = "siblings" -> Dumps(g.obj) \o g.trail \o Dumps(g.obj2)
      [] OTHER -> <<>>

NoRet == [kind |-> "none", val |-> JNull]

OffRet == [kind |-> "off", val |-> JNull]

(***************************************************************************)
(* POST /api/plan (src/main.py:76-100)                                     *)
(***************************************************************************)
Reqs == {"r1", "r2"}

\* The environment variable is not set at all.
KeyUnset == "<unset>"

EnvKeys == {KeyUnset, "", "sk-live"}

\* Line 78: os.environ.get("ANTHROPIC_API_KEY", "")
EnvGet(env) == IF env = KeyUnset THEN "" ELSE env

\* A check that takes only an unset variable for missing (key is None).
KeyMissingNone(key) == key = KeyUnset

\* Line 79: not key
KeyMissing(key) == key = ""

Messages == {<<"g", "o", "a", " ", "t", "r", "i", "p">>, <<"2", " ", "d", "a", "y", "s", " ", "i", "n", " ", "r", "o",
      "m", "e">>}

K_duration_days == <<"d", "u", "r", "a", "t", "i", "o", "n", "_", "d", "a", "y",
      "s">>

K_total_budget == <<"t", "o", "t", "a", "l", "_", "b", "u", "d", "g", "e", "t">>

K_destination == <<"d", "e", "s", "t", "i", "n", "a", "t", "i", "o", "n">>

\* Lines 95-96: the defaults of intent.get.
DefaultDuration == JNum(3)

DefaultBudget == JNum(15000)

DefaultDestination == JStr(K_destination)

\* Texts the LLM service may answer the first call with.
IntentFull ==
    <<TICK, TICK, TICK, "j", "s", "o", "n", NL, "{", QUOTE, "d", "e",
      "s", "t", "i", "n", "a", "t", "i", "o", "n", QUOTE, ":", " ",
      QUOTE, "g", "o", "a", QUOTE, ",", " ", QUOTE, "d", "u", "r", "a",
      "t", "i", "o", "n", "_", "d", "a", "y", "s", QUOTE, ":", " ",
      "2", ",", " ", QUOTE, "t", "o", "t", "a", "l", "_", "b", "u",
      "d", "g", "e", "t", QUOTE, ":", " ", "9", "0", "0", "}", NL,
      TICK, TICK, TICK>>

IntentEmpty == <<"{", "}">>

IntentNulls ==
    <<"{", QUOTE, "d", "u", "r", "a", "t", "i", "o", "n", "_", "d",
      "a", "y", "s", QUOTE, ":", " ", "n", "u", "l", "l", ",", " ",
      QUOTE, "t", "o", "t", "a", "l", "_", "b", "u", "d", "g", "e",
      "t", QUOTE, ":", " ", "n", "u", "l", "l", "}">>

IntentUndecodable == <<"{", "o", "o", "p", "s", "}">>

IntentList == <<"[", "1", "]">>

IntentProse == <<"s", "o", "r", "r", "y">>

IntentNumber == <<"7">>

IntentResponses == {IntentFull, IntentEmpty, IntentNulls, IntentUndecodable,
                    IntentList, IntentProse, IntentNumber}

\* Texts the LLM service may answer the second call with.
PlanGood ==
    <<"{", QUOTE, "t", "r", "i", "p", "_", "t", "i", "t", "l", "e",
      QUOTE, ":", " ", QUOTE, "g", "o", "a", QUOTE, "}">>

PlanUndecodable == <<"{", "}", " ", "{", "}">>

PlanProse == <<"n", "o", "p", "e">>

PlanResponses == {PlanGood, PlanUndecodable, PlanProse}

(***************************************************************************)
(* str() and repr() of a decoded value, as an f-string writes it.          *)
(***************************************************************************)
RECURSIVE PyRepr(_)
RECURSIVE PyReprItems(_, _)
RECURSIVE PyReprPairs(_, _)

PyReprItems(vs, i) ==
    IF i > Len(vs) THEN <<>>
    ELSE (IF i > 1 THEN <<",", " ">> ELSE <<>>) \o PyRepr(vs[i]) \o PyReprItems(vs, i + 1)

PyReprPairs(obj, i) ==
    IF i > Len(obj.keys) THEN <<>>
    ELSE (IF i > 1 THEN <<",", " ">> ELSE <<>>)
         \o <<"'">> \o obj.keys[i] \o <<"'", ":", " ">> \o PyRepr(obj.kids[i])
         \o PyReprPairs(obj, i + 1)

PyRepr(v) ==
    CASE v.t = "null" -> <<"N", "o", "n", "e">>
      [] v.t = "bool" -> IF v.n = 1 THEN <<"T", "r", "u", "e">> ELSE <<"F", "a", "l", "s", "e">>
      [] v.t = "num" -> IntChars(v.n)
      [] v.t = "str" -> <<"'">> \o v.s \o <<"'">>
      [] v.t = "arr" -> <<"[">> \o PyReprItems(v.kids, 1) \o <<"]">>
      [] v.t = "obj" -> <<"{">> \o PyReprPairs(v, 1) \o <<"}">>

\* {value} in an f-string: str(value).
PyStr(v) == IF v.t = "str" THEN v.s ELSE PyRepr(v)

\* dict.get(key, default): the default only when the key is absent.
DictGet(obj, key, default) == IF DictHas(obj, key) THEN DictAt(obj, key) ELSE default

NoPrompt == [message |-> <<>>, intent_json |-> <<>>, duration |-> <<>>,
             budget |-> <<>>, destination |-> <<>>]

\* The budget read under a key the intent does not have.
PlanPromptWrongKey(msg, it) ==
    [message |-> msg,
     intent_json |-> Dumps(it),
     duration |-> PyStr(DictGet(it, K_duration_days, DefaultDuration)),
     budget |-> PyStr(DictGet(it, <<"b", "u", "d", "g", "e", "t">>, DefaultBudget)),
     destination |-> PyStr(DictGet(it, K_destination, DefaultDestination))]

\* Lines 94-96: the parts the f-strings interpolate.
PlanPrompt(msg, it) ==
    [message |-> msg,
     intent_json |-> Dumps(it),
     duration |-> PyStr(DictGet(it, K_duration_days, DefaultDuration)),
     budget |-> PyStr(DictGet(it, K_total_budget, DefaultBudget)),
     destination |-> PyStr(DictGet(it, K_destination, DefaultDestination))]

\* Lines 94-96: the user content of the second call.
PromptText(p) ==
    <<"U", "s", "e", "r", ":", " ", QUOTE>> \o p.message
    \o <<QUOTE, NL, "I", "n", "t", "e", "n", "t", ":", " ">> \o p.intent_json
    \o <<NL, "G", "e", "n", "e", "r", "a", "t", "e", " ", "A", "L",
      "L", " ">> \o p.duration
    \o <<" ", "d", "a", "y", "s", ".", " ", "B", "u", "d", "g", "e",
      "t", ":", " ">> \o p.budget
    \o <<" ", "I", "N", "R", ".", " ", "D", "e", "s", "t", "i", "n",
      "a", "t", "i", "o", "n", ":", " ">> \o p.destination
    \o <<".", " ", "U", "s", "e", " ", "r", "e", "a", "l", " ", "a",
      "t", "t", "r", "a", "c", "t", "i", "o", "n", " ", "n", "a",
      "m", "e", "s", ".">>

(***************************************************************************)
(* What a request answers.                                                 *)
(***************************************************************************)
NoResponse == [status |-> 0, body |-> "none", detail |-> "", intent |-> JNull, plan |-> JNull]

\* The missing key reported by an exception that is no HTTPException.
ConfigErrorPlain ==
    [status |-> 500, body |-> "plain", detail |-> "", intent |-> JNull, plan |-> JNull]

\* Line 80: HTTPException(500, ...), answered as {"detail": ...}.
ConfigErrorResponse ==
    [status |-> 500, body |-> "detail",
     detail |-> "ANTHROPIC_API_KEY environment variable not set",
     intent |-> JNull, plan |-> JNull]

\* plan() catches nothing: an exception that is no HTTPException leaves it
\* and is answered with the plain text "Internal Server Error", no detail.
UnhandledResponse ==
    [status |-> 500, body |-> "plain", detail |-> "", intent |-> JNull, plan |-> JNull]

\* Line 100.
SuccessResponse(it, pl) ==
    [status |-> 200, body |-> "json", detail |-> "", intent |-> it, plan |-> pl]

Call(kind, content) == [kind |-> kind, content |-> content, state |-> "pending"]

\* The last call of a log, with its state changed.
Settle(log, st) == [log EXCEPT ![Len(log)] = [@ EXCEPT !.state = st]]

\* A first call that is not waited for: the handler goes on to the prompt.
AfterIssueNoWait(kind) == IF kind = "intent" THEN "build_prompt" ELSE "plan_pending"

\* Lines 83 and 90: client.messages.create is a blocking call; the next
\* statement runs when it has returned.
AfterIssue(kind) == IF kind = "intent" THEN "intent_pending" ELSE "plan_pending"

\* A failed call that is issued again.
OnCallFailureRetry(kind) == IF kind = "intent" THEN "call_intent" ELSE "build_prompt"

\* No try/except around the calls: what create() raises leaves plan().
OnCallFailure(kind) == "failed"

(***************************************************************************)
(* The requests.  Every request runs plan() from its first line; the       *)
(* requests interleave at the outbound calls and between statements.       *)
(***************************************************************************)
\* The variables of the GET routes, idle while another part is checked.
NoPath == <<"<none>">>

NoAnswer == [status |-> 0, kind |-> "none", body |-> <<>>]

HttpOff ==
    /\ get_path = NoPath
    /\ get_resp = NoAnswer

\* The variables of the page, idle while another part is checked.
PageOff ==
    /\ ta = <<>>
    /\ send_disabled = FALSE
    /\ thinking = FALSE
    /\ fetches = <<>>

\* The variables of a card's split pane, idle while another part is checked.
NoSplit == [defined |-> FALSE, members |-> <<>>, total |-> 0]

\* The pane shows another tab: none of the split pane's elements exists.
NoPane == [shown |-> FALSE, names |-> <<>>, removable |-> {}, count |-> 0, amt |-> 0,
           result |-> FALSE]

SplitOff ==
    /\ total = 0
    /\ tab = "off"
    /\ splitState = NoSplit
    /\ si = <<>>
    /\ pane = NoPane

ParseOff ==
    /\ given = NoGiven
    /\ arg = <<>>
    /\ text = <<>>
    /\ ppc = "off"
    /\ ret = OffRet

Init ==
    /\ env_key \in EnvKeys
    /\ message \in [Reqs -> Messages]
    /\ pc = [r \in Reqs |-> "start"]
    /\ intent_text = [r \in Reqs |-> <<>>]
    /\ intent = [r \in Reqs |-> JNull]
    /\ prompt = [r \in Reqs |-> NoPrompt]
    /\ plan_text = [r \in Reqs |-> <<>>]
    /\ plan_data = [r \in Reqs |-> JNull]
    /\ calls = [r \in Reqs |-> <<>>]
    /\ response = [r \in Reqs |-> NoResponse]
    /\ ParseOff
    /\ HttpOff
    /\ PageOff
    /\ SplitOff

\* A result kept per message: a request whose message another request has
\* already served takes that request's intent.
CachedIntent(r) ==
    LET served == {q \in Reqs \ {r} : message[q] = message[r] /\ pc[q] = "done"}
    IN  IF served # {} THEN intent[CHOOSE q \in served : TRUE] ELSE intent[r]

\* Line 88: intent is a local of the invocation.
OwnIntent(r) == intent[r]

\* Every value answers .get.
HasGetAny(v) == TRUE

\* Lines 95-96: intent.get exists on a dict only; on a list, a number, a
\* string, a boolean or None the attribute lookup raises AttributeError.
HasGet(v) == v.t = "obj"

\* Lines 78-81.
CheckKey(r) ==
    /\ pc[r] = "start"
    /\ IF KeyMissing(EnvGet(env_key))
       THEN /\ pc' = [pc EXCEPT ![r] = "failed"]
            /\ response' = [response EXCEPT ![r] = ConfigErrorResponse]
       ELSE /\ pc' = [pc EXCEPT ![r] = "call_intent"]
            /\ UNCHANGED response
    /\ UNCHANGED <<env_key, message, intent_text, intent, prompt, plan_text, plan_data, calls>>
    /\ UNCHANGED <<pvars, hvars, gvars, svars>>

\* Lines 83-87: the first call goes out.
IssueIntent(r) ==
    /\ pc[r] = "call_intent"
    /\ calls' = [calls EXCEPT ![r] = Append(@, Call("intent", message[r]))]
    /\ pc' = [pc EXCEPT ![r] = AfterIssue("intent")]
    /\ UNCHANGED <<env_key, message, intent_text, intent, prompt, plan_text, plan_data, response>>
    /\ UNCHANGED <<pvars, hvars, gvars, svars>>

\* The service answers the first call with some text.
IntentReturn(r) ==
    /\ pc[r] = "intent_pending"
    /\ \E t \in IntentResponses : intent_text' = [intent_text EXCEPT ![r] = t]
    /\ calls' = [calls EXCEPT ![r] = Settle(@, "returned")]
    /\ pc' = [pc EXCEPT ![r] = "parse_intent"]
    /\ UNCHANGED <<env_key, message, intent, prompt, plan_text, plan_data, response>>
    /\ UNCHANGED <<pvars, hvars, gvars, svars>>

\* The first call raises (network, authentication, quota).
IntentFail(r) ==
    /\ pc[r] = "intent_pending"
    /\ calls' = [calls EXCEPT ![r] = Settle(@, "failed")]
    /\ pc' = [pc EXCEPT ![r] = OnCallFailure("intent")]
    /\ response' = [response EXCEPT ![r] =
                       IF OnCallFailure("intent") = "failed" THEN UnhandledResponse ELSE @]
    /\ UNCHANGED <<env_key, message, intent_text, intent, prompt, plan_text, plan_data>>
    /\ UNCHANGED <<pvars, hvars, gvars, svars>>

\* Line 88.
ParseIntent(r) ==
    /\ pc[r] = "parse_intent"
    /\ LET out == ParseJson(intent_text[r])
       IN  IF out.kind = "raise"
           THEN /\ pc' = [pc EXCEPT ![r] = "failed"]
                /\ response' = [response EXCEPT ![r] = UnhandledResponse]
                /\ UNCHANGED intent
           ELSE /\ intent' = [intent EXCEPT ![r] = out.val]
                /\ pc' = [pc EXCEPT ![r] = "build_prompt"]
                /\ UNCHANGED response
    /\ UNCHANGED <<env_key, message, intent_text, prompt, plan_text, plan_data, calls>>
    /\ UNCHANGED <<pvars, hvars, gvars, svars>>

\* Lines 90-98: the prompt is built (intent.get raises AttributeError on a
\* value that is no dict), then the second call goes out.
IssuePlan(r) ==
    /\ pc[r] = "build_prompt"
    /\ IF ~HasGet(OwnIntent(r))
       THEN /\ pc' = [pc EXCEPT ![r] = "failed"]
            /\ response' = [response EXCEPT ![r] = UnhandledResponse]
            /\ UNCHANGED <<prompt, calls>>
       ELSE /\ prompt' = [prompt EXCEPT ![r] = PlanPrompt(message[r], OwnIntent(r))]
            /\ calls' = [calls EXCEPT ![r] =
                            Append(@, Call("plan", PromptText(PlanPrompt(message[r], OwnIntent(r)))))]
            /\ pc' = [pc EXCEPT ![r] = AfterIssue("plan")]
            /\ UNCHANGED response
    /\ UNCHANGED <<env_key, message, intent_text, intent, plan_text, plan_data>>
    /\ UNCHANGED <<pvars, hvars, gvars, svars>>

\* The service answers the second call with some text.
PlanReturn(r) ==
    /\ pc[r] = "plan_pending"
    /\ \E t \in PlanResponses : plan_text' = [plan_text EXCEPT ![r] = t]
    /\ calls' = [calls EXCEPT ![r] = Settle(@, "returned")]
    /\ pc' = [pc EXCEPT ![r] = "parse_plan"]
    /\ UNCHANGED <<env_key, message, intent_text, intent, prompt, plan_data, response>>
    /\ UNCHANGED <<pvars, hvars, gvars, svars>>

\* The second call raises.
PlanFail(r) ==
    /\ pc[r] = "plan_pending"
    /\ calls' = [calls EXCEPT ![r] = Settle(@, "failed")]
    /\ pc' = [pc EXCEPT ![r] = OnCallFailure("plan")]
    /\ response' = [response EXCEPT ![r] =
                       IF OnCallFailure("plan") = "failed" THEN UnhandledResponse ELSE @]
    /\ UNCHANGED <<env_key, message, intent_text, intent, prompt, plan_text, plan_data>>
    /\ UNCHANGED <<pvars, hvars, gvars, svars>>

\* Lines 99-100.
ParsePlan(r) ==
    /\ pc[r] = "parse_plan"
    /\ LET out == ParseJson(plan_text[r])
       IN  IF out.kind = "raise"
           THEN /\ pc' = [pc EXCEPT ![r] = "failed"]
                /\ response' = [response EXCEPT ![r] = UnhandledResponse]
                /\ UNCHANGED plan_data
           ELSE /\ plan_data' = [plan_data EXCEPT ![r] = out.val]
                /\ pc' = [pc EXCEPT ![r] = "done"]
                /\ response' = [response EXCEPT ![r] = SuccessResponse(OwnIntent(r), out.val)]
    /\ UNCHANGED <<env_key, message, intent_text, intent, prompt, plan_text, calls>>
    /\ UNCHANGED <<pvars, hvars, gvars, svars>>

Next ==
    \E r \in Reqs :
        \/ CheckKey(r)
        \/ IssueIntent(r)
        \/ IntentReturn(r)
        \/ IntentFail(r)
        \/ ParseIntent(r)
        \/ IssuePlan(r)
        \/ PlanReturn(r)
        \/ PlanFail(r)
        \/ ParsePlan(r)

Spec == Init /\ [][Next]_vars

(***************************************************************************)
(* Progress.  The statements of plan() run one after another, so a request *)
(* whose next statement can run does run it; nothing in plan() bounds the  *)
(* time client.messages.create takes, so no fairness is assumed of the     *)
(* service's answers.                                                      *)
(***************************************************************************)
\* The positions at which the next statement of plan() is the request's own
\* (CheckKey, IssueIntent, ParseIntent, IssuePlan, ParsePlan), and all of them.
HandlerPositions == {"start", "call_intent", "parse_intent", "build_prompt", "parse_plan"}

Positions == HandlerPositions \cup {"intent_pending", "plan_pending", "done", "failed"}

\* The request runs its next statement: it leaves the position it is at.
HandlerStep(r) ==
    /\ pc[r] \in HandlerPositions
    /\ \E p \in Positions \ {pc[r]} : pc' = [pc EXCEPT ![r] = p]

SpecLive == Init /\ [][Next]_vars /\ \A r \in Reqs : WF_pc(HandlerStep(r))

(***************************************************************************)
(* One call of parse_json, statement by statement.                         *)
(***************************************************************************)
ParseInputs ==
    {AnyGiven}
    \cup {Wrapped(lead, w, J, trail) : lead \in Prose, w \in Wraps, J \in Objects, trail \in Prose}
    \cup {Siblings(J1, sep, J2) : J1 \in Objects, sep \in Separators, J2 \in Objects}

ReqsOff ==
    /\ message = [r \in Reqs |-> <<>>]
    /\ pc = [r \in Reqs |-> "off"]
    /\ intent_text = [r \in Reqs |-> <<>>]
    /\ intent = [r \in Reqs |-> JNull]
    /\ prompt = [r \in Reqs |-> NoPrompt]
    /\ plan_text = [r \in Reqs |-> <<>>]
    /\ plan_data = [r \in Reqs |-> JNull]
    /\ calls = [r \in Reqs |-> <<>>]
    /\ response = [r \in Reqs |-> NoResponse]

PlanOff ==
    /\ env_key = KeyUnset
    /\ ReqsOff

InitParse ==
    /\ given \in ParseInputs
    /\ arg \in IF given.form = "any" THEN ShortTexts \cup PlainTexts ELSE {Build(given)}
    /\ text = <<>>
    /\ ppc = "strip"
    /\ ret = NoRet
    /\ PlanOff
    /\ HttpOff
    /\ PageOff
    /\ SplitOff

\* Lines 59-60.
StripStep ==
    /\ ppc = "strip"
    /\ text' = StripFences(arg)
    /\ ppc' = "decode"
    /\ UNCHANGED <<given, arg, ret>>
    /\ UNCHANGED <<ovars, hvars, gvars, svars>>

\* Lines 61-64: the direct decode returns, or raises into the except block.
DecodeStep ==
    /\ ppc = "decode"
    /\ LET d == DirectDecode(text)
       IN  IF d.ok
           THEN ret' = Return(d.val) /\ ppc' = "done"
           ELSE ret' = ret /\ ppc' = "except"
    /\ UNCHANGED <<given, arg, text>>
    /\ UNCHANGED <<ovars, hvars, gvars, svars>>

\* Lines 65-66.
FallbackStep ==
    /\ ppc = "except"
    /\ ret' = SpanFallback(text)
    /\ ppc' = "done"
    /\ UNCHANGED <<given, arg, text>>
    /\ UNCHANGED <<ovars, hvars, gvars, svars>>

NextParse == StripStep \/ DecodeStep \/ FallbackStep

SpecParse == InitParse /\ [][NextParse]_vars

(***************************************************************************)
(* The GET routes.  A request is matched against the routes in the order   *)
(* in which they were registered; the first route whose path and method    *)
(* both match handles it.                                                  *)
(***************************************************************************)
MaxPath == 4

PathChars == {"a", "p", "i", "/"}

P_health == <<"a", "p", "i", "/", "h", "e", "a", "l", "t", "h">>

P_plan == <<"a", "p", "i", "/", "p", "l", "a", "n">>

P_openapi == <<"o", "p", "e", "n", "a", "p", "i", ".", "j", "s", "o", "n">>

P_docs == <<"d", "o", "c", "s">>

P_oauth2 == P_docs \o <<"/", "o", "a", "u", "t", "h", "2", "-", "r", "e", "d", "i", "r", "e", "c", "t">>

P_redoc == <<"r", "e", "d", "o", "c">>

API_PREFIX == <<"a", "p", "i", "/">>

\* The paths of the GET requests, without the leading '/'.
Paths ==
    UNION {[1..n -> PathChars] : n \in 0..MaxPath}
    \cup {P_health, P_plan, P_openapi, P_docs, P_oauth2, P_redoc}
    \cup {P_health \o <<"/">>, P_docs \o <<"/">>, API_PREFIX \o P_docs, <<"a", "p", "i", "x">>,
          <<"x">> \o API_PREFIX \o <<"x">>, API_PREFIX \o <<"x", "/", "x">>}

WILDCARD == <<"{path:path}">>

Route(method, path, endpoint) == [method |-> method, path |-> path, endpoint |-> endpoint]

\* Line 14: FastAPI() with its defaults registers the routes of the schema
\* and of the two documentation pages when the application is constructed.
DefaultRoutes ==
    <<Route("GET", P_openapi, "openapi"), Route("GET", P_docs, "swagger_ui_html"),
      Route("GET", P_oauth2, "swagger_ui_redirect"), Route("GET", P_redoc, "redoc_html")>>

\* Lines 72 and 76.
ApiRoutes == <<Route("GET", P_health, "health"), Route("POST", P_plan, "plan")>>

\* Lines 567-568.
PageRoutes == <<Route("GET", <<>>, "serve"), Route("GET", WILDCARD, "serve")>>

Routes == DefaultRoutes \o ApiRoutes \o PageRoutes

PathMatches(route, path) == route.path = WILDCARD \/ route.path = path

Answer(status, kind, body) == [status |-> status, kind |-> kind, body |-> body]

\* A health check that looks for the key first.
HealthNeedsKey ==
    IF KeyMissing(EnvGet(env_key))
    THEN Answer(500, "json", <<<<"detail", "ANTHROPIC_API_KEY environment variable not set">>>>)
    ELSE Answer(200, "json", <<<<"status", "ok">>, <<"service", "wandr.ai">>>>)

\* Lines 73-74.
health == Answer(200, "json", <<<<"status", "ok">>, <<"service", "wandr.ai">>>>)

NotFound == Answer(404, "json", <<<<"detail", "Not Found">>>>)

MethodNotAllowed == Answer(405, "json", <<<<"detail", "Method Not Allowed">>>>)

Document == Answer(200, "html", <<<<"document", "HTML">>>>)

\* Lines 569-573.
serve(path) == IF HasAt(path, 1, API_PREFIX) THEN NotFound ELSE Document

\* What the endpoint of a route answers a GET with.
Endpoint(name, path) ==
    CASE name = "health" -> health
      [] name = "serve" -> serve(path)
      [] name = "openapi" -> Answer(200, "json", <<<<"document", "openapi schema">>>>)
      [] name = "swagger_ui_html" -> Answer(200, "html", <<<<"document", "Swagger UI">>>>)
      [] name = "swagger_ui_redirect" -> Answer(200, "html", <<<<"document", "Swagger UI redirect">>>>)
      [] name = "redoc_html" -> Answer(200, "html", <<<<"document", "ReDoc">>>>)

\* The router: the first route that matches path and method; a route that
\* matches the path alone is answered 405 only when no later route matches
\* both.
Dispatch(method, path) ==
    LET full == {i \in 1..Len(Routes) :
                    PathMatches(Routes[i], path) /\ Routes[i].method = method}
        partial == {i \in 1..Len(Routes) : PathMatches(Routes[i], path)}
    IN  IF full # {} THEN Endpoint(Routes[SetMin(full)].endpoint, path)
        ELSE IF partial # {} THEN MethodNotAllowed
        ELSE NotFound

InitHttp ==
    /\ env_key \in EnvKeys
    /\ ReqsOff
    /\ ParseOff
    /\ HttpOff
    /\ PageOff
    /\ SplitOff

\* One GET request, answered.
Get(path) ==
    /\ get_path' = path
    /\ get_resp' = Dispatch("GET", path)
    /\ UNCHANGED <<pvars, ovars, gvars, svars>>

NextHttp == \E path \in Paths : Get(path)

SpecHttp == InitHttp /\ [][NextHttp]_vars

(***************************************************************************)
(* The page: the textarea, the send button and go().  The script runs one  *)
(* handler at a time; a go() gives way at its two awaits (the fetch and    *)
(* the reading of the body), where other handlers may run.                 *)
(***************************************************************************)
MaxGo == 3

\* Line 371, two of the examples, shortened.
EX == << <<"P", "a", "r", "i", "s">>, <<"B", "a", "l", "i">> >>

\* What the user may type into the textarea.
Typed == {<<>>, <<" ">>, <<" ", "g", "o", "a">>}

\* Line 397: String.prototype.trim.
Trim(s) == Strip(s)

\* States of an invocation of go() that reached line 406.
Awaiting == {"fetch", "json", "error_json"}

InitPage ==
    /\ ta = <<>>
    /\ send_disabled = FALSE
    /\ thinking = FALSE
    /\ fetches = <<>>
    /\ PlanOff
    /\ ParseOff
    /\ HttpOff
    /\ SplitOff

\* The user edits the textarea.
Type(t) ==
    /\ ta' = t
    /\ UNCHANGED <<send_disabled, thinking, fetches>>
    /\ UNCHANGED <<pvars, ovars, hvars, svars>>

\* Line 379, from a chip or an example card.
useEx(i) ==
    /\ ta' = EX[i]
    /\ UNCHANGED <<send_disabled, thinking, fetches>>
    /\ UNCHANGED <<pvars, ovars, hvars, svars>>

\* Lines 387-393: the indicator there is, is replaced.
showThink == thinking' = TRUE

\* Line 394.
hideThink == thinking' = FALSE

\* Lines 396-406: go() up to the fetch.  With nothing but blanks in the
\* textarea it returns at line 398 and changes nothing.
go ==
    /\ Trim(ta) # <<>>
    /\ Len(fetches) < MaxGo
    /\ ta' = <<>>
    /\ send_disabled' = TRUE
    /\ showThink
    /\ fetches' = Append(fetches, [txt |-> Trim(ta), state |-> "fetch"])
    /\ UNCHANGED <<pvars, ovars, hvars, svars>>

\* Line 348: onclick of #sendBtn; a disabled button raises no click event.
ClickReaches == ~send_disabled

ClickSend == ClickReaches /\ go

\* Line 347: onkeydown of #ta, Enter without Shift.
PressEnter == go

\* Lines 406-407: the fetch resolves; the body is read next.
FetchResolve(i, ok) ==
    /\ fetches[i].state = "fetch"
    /\ fetches' = [fetches EXCEPT ![i].state = IF ok THEN "json" ELSE "error_json"]
    /\ UNCHANGED <<ta, send_disabled, thinking>>
    /\ UNCHANGED <<pvars, ovars, hvars, svars>>

\* Lines 411-416: catch and finally.
Caught(i) ==
    /\ hideThink
    /\ fetches' = [fetches EXCEPT ![i].state = "error"]
    /\ send_disabled' = FALSE
    /\ UNCHANGED ta
    /\ UNCHANGED <<pvars, ovars, hvars, svars>>

\* Line 406: the fetch rejects (no connection).
FetchReject(i) == fetches[i].state = "fetch" /\ Caught(i)

\* Line 407: the body of an error answer was read, go() throws.
ErrorBody(i) == fetches[i].state = "error_json" /\ Caught(i)

\* Lines 408-410 and 415: the body was read and the card is rendered.
Render(i) ==
    /\ fetches[i].state = "json"
    /\ hideThink
    /\ fetches' = [fetches EXCEPT ![i].state = "rendered"]
    /\ send_disabled' = FALSE
    /\ UNCHANGED ta
    /\ UNCHANGED <<pvars, ovars, hvars, svars>>

\* Lines 408-409: the body is no JSON, or renderCard throws.
RenderThrows(i) == fetches[i].state = "json" /\ Caught(i)

NextPage ==
    \/ \E t \in Typed : Type(t)
    \/ \E i \in 1..Len(EX) : useEx(i)
    \/ ClickSend
    \/ PressEnter
    \/ \E i \in 1..Len(fetches), ok \in BOOLEAN : FetchResolve(i, ok)
    \/ \E i \in 1..Len(fetches) : FetchReject(i)
    \/ \E i \in 1..Len(fetches) : ErrorBody(i)
    \/ \E i \in 1..Len(fetches) : Render(i)
    \/ \E i \in 1..Len(fetches) : RenderThrows(i)

SpecPage == InitPage /\ [][NextPage]_vars

(***************************************************************************)
(* A rendered card and its split pane.  Positions in members are counted   *)
(* from 0, as the script counts them.                                      *)
(***************************************************************************)
MaxMembers == 3

YOU == <<"Y", "o", "u">>

\* What intent.total_budget||15000 may be.
Totals == {15000, 900, 7}

\* The tabs (three of the seven; the others behave as "itin" does).
Tabs == {"itin", "split", "alerts"}

\* What the user may type into the name input.
TypedNames == {<<>>, <<" ">>, <<"A", "l">>, <<" ", "Y", "o", "u">>}

INFINITY == [inf |-> TRUE]

\* Line 528: Math.round(st.total/st.members.length); a division by zero
\* gives Infinity and raises nothing.
Per(st) ==
    IF Len(st.members) = 0 THEN INFINITY
    ELSE [inf |-> FALSE, n |-> (2 * st.total + Len(st.members)) \div (2 * Len(st.members))]

\* Every member gets the button.
RemovableAll(i) == TRUE

\* Line 530: the remove button is rendered for i>0 only.
Removable(i) == i > 0

\* Lines 514-516: the pane as built: one person, You, the whole total.
buildSplit(tot) ==
    [shown |-> TRUE, names |-> <<YOU>>, removable |-> {}, count |-> 1,
     amt |-> [inf |-> FALSE, n |-> tot], result |-> FALSE]

\* Line 520.
wireSplit(st, tot) ==
    IF st.defined THEN st ELSE [defined |-> TRUE, members |-> <<YOU>>, total |-> tot]

\* Lines 526-532, with the pane's elements in the document.
renderSplit(st) ==
    [shown |-> TRUE, names |-> st.members,
     removable |-> {i \in 0..(Len(st.members) - 1) : Removable(i)},
     count |-> Len(st.members), amt |-> Per(st), result |-> Len(st.members) > 1]

\* Array.prototype.splice(idx, 1).
Splice(ms, idx) ==
    IF idx >= Len(ms) THEN ms
    ELSE SubSeq(ms, 1, idx) \o SubSeq(ms, idx + 2, Len(ms))

\* Lines 419-469: the card as rendered, on its first tab.
InitSplit ==
    /\ total \in Totals
    /\ tab = "itin"
    /\ splitState = NoSplit
    /\ si = <<>>
    /\ pane = NoPane
    /\ PlanOff
    /\ ParseOff
    /\ HttpOff
    /\ PageOff

\* Lines 472-481.
switchTab(tabId) ==
    /\ tab' = tabId
    /\ si' = <<>>
    /\ IF tabId = "split"
       THEN /\ pane' = buildSplit(total)
            /\ splitState' = wireSplit(splitState, total)
       ELSE /\ pane' = NoPane
            /\ UNCHANGED splitState
    /\ UNCHANGED total
    /\ UNCHANGED <<pvars, ovars, hvars, gvars>>

\* The user edits the name input.
TypeName(n) ==
    /\ pane.shown
    /\ si' = n
    /\ UNCHANGED <<total, tab, splitState, pane>>
    /\ UNCHANGED <<pvars, ovars, hvars, gvars>>

\* Lines 523-524: the handler of the add button and of Enter in the input.
\* With nothing but blanks in the input it changes nothing.
AddMember ==
    /\ pane.shown
    /\ Trim(si) # <<>>
    /\ Len(splitState.members) < MaxMembers
    /\ splitState' = [splitState EXCEPT !.members = Append(@, Trim(si))]
    /\ si' = <<>>
    /\ pane' = renderSplit(splitState')
    /\ UNCHANGED <<total, tab>>
    /\ UNCHANGED <<pvars, ovars, hvars, gvars>>

\* Line 533, from a remove button the pane shows.
rmSplit(idx) ==
    /\ pane.shown
    /\ idx \in pane.removable
    /\ splitState.defined
    /\ splitState' = [splitState EXCEPT !.members = Splice(@, idx)]
    /\ pane' = renderSplit(splitState')
    /\ UNCHANGED <<total, tab, si>>
    /\ UNCHANGED <<pvars, ovars, hvars, gvars>>

NextSplit ==
    \/ \E tabId \in Tabs : switchTab(tabId)
    \/ \E n \in TypedNames : TypeName(n)
    \/ AddMember
    \/ \E idx \in 0..(MaxMembers - 1) : rmSplit(idx)

SpecSplit == InitSplit /\ [][NextSplit]_vars

(***************************************************************************)
(* Properties of parse_json, checked under SpecParse.                      *)
(***************************************************************************)
HasChar(s, cs) == \E i \in 1..Len(s) : s[i] \in cs

HasSub(s, w) == \E i \in 1..Len(s) : HasAt(s, i, w)

Returned == ppc = "done"

\* C1: parse_json never raises: for every argument it returns a value, the
\* empty object when neither the direct decode nor the decode of the greedy
\* span succeeds.
C1_NeverRaises == Returned => ret.kind = "return"

\* C2: for an argument made of two disjoint balanced top-level objects,
\* parse_json returns the empty object; it returns neither of the two and
\* does not raise.
C2_SiblingsGiveEmptyObject ==
    (Returned /\ given.form = "siblings") => ret = Return(EmptyObj)

\* C3, as claimed: for every object J and every text made of J, optionally
\* fenced, between arbitrary leading and trailing prose, parse_json returns
\* a value deeply equal to J.
C3_WrappedObjectRecovered ==
    (Returned /\ given.form = "wrapped") => ret = Return(given.obj)

\* The prose and the object for which the recovery holds: no '{' and no '['
\* in the leading prose, no '}' in the trailing prose, no triple backtick
\* inside the encoding of the object.
CleanWrap(g) ==
    /\ ~HasChar(g.lead, {"{", "["})
    /\ ~HasChar(g.trail, {"}"})
    /\ ~HasSub(Dumps(g.obj), FENCE)

\* C3, amended: for every object J whose encoding holds no triple backtick
\* and every text made of J, optionally fenced, after a leading prose with
\* no '{' and no '[' and before a trailing prose with no '}', parse_json
\* returns a value deeply equal to J.
C3_CleanWrappedObjectRecovered ==
    (Returned /\ given.form = "wrapped" /\ CleanWrap(given)) => ret = Return(given.obj)

\* C3: a fenced, non-empty object between a leading and a trailing prose,
\* recovered by the greedy span after the direct decode failed.
C3_Witness ==
    /\ Returned
    /\ given.form = "wrapped"
    /\ CleanWrap(given)
    /\ given.lead # <<>>
    /\ given.trail = <<"[">>
    /\ given.open = FENCE_JSON \o <<NL>>
    /\ Len(given.obj.keys) = 2
    /\ ~DirectDecode(text).ok
    /\ ret = Return(given.obj)

\* C4: for the empty string and for every string with no '{' and no '[',
\* parse_json returns the empty object and does not raise.
C4_NoBraceGivesEmptyObject ==
    (Returned /\ ~HasChar(arg, {"{", "["})) => ret = Return(EmptyObj)

(***************************************************************************)
(* Properties of POST /api/plan, checked under Spec.                       *)
(***************************************************************************)
CallsOf(r, kind) == {i \in 1..Len(calls[r]) : calls[r][i].kind = kind}

CallsIn(r, st) == {i \in 1..Len(calls[r]) : calls[r][i].state = st}

Finished(r) == pc[r] \in {"done", "failed"}

\* Both calls were issued and both were answered.
BothAnswered(r) == Len(calls[r]) = 2 /\ CallsIn(r, "returned") = {1, 2}

IsNumberText(cs) ==
    /\ cs # <<>>
    /\ \A i \in 1..Len(cs) : IsDigit(cs[i]) \/ (i = 1 /\ cs[i] = "-" /\ Len(cs) > 1)

\* C5: whenever both calls of a request are answered, the request ends with
\* a success status and an {intent, plan} body, whatever the two texts are.
C5_AnsweredCallsGiveSuccess ==
    \A r \in Reqs :
        (BothAnswered(r) /\ Finished(r)) =>
            (pc[r] = "done" /\ response[r].status = 200 /\ response[r].body = "json")

\* C6: the prompt of the second call carries a number for the duration and
\* for the budget, whatever intent the first call gave: an absent or null
\* field is never written into it.
C6_PromptCarriesNumbers ==
    \A r \in Reqs :
        CallsOf(r, "plan") # {} =>
            (IsNumberText(prompt[r].duration) /\ IsNumberText(prompt[r].budget))

\* C7: with ANTHROPIC_API_KEY unset or empty, a request that has passed the
\* check has failed with an error status and a detail naming the variable,
\* and has issued no outbound call.
C7_MissingKeyFailsBeforeAnyCall ==
    \A r \in Reqs :
        (env_key \in {KeyUnset, ""} /\ pc[r] # "start") =>
            /\ pc[r] = "failed"
            /\ response[r].status = 500
            /\ response[r].body = "detail"
            /\ response[r].detail = "ANTHROPIC_API_KEY environment variable not set"
            /\ calls[r] = <<>>

\* C7: a request refused for an empty key while the other has not started.
C7_Witness ==
    /\ env_key = ""
    /\ pc["r1"] = "failed"
    /\ response["r1"] = ConfigErrorResponse
    /\ calls["r1"] = <<>>
    /\ pc["r2"] = "start"

\* The state of the request's state machine a position of plan() is in.
Phase(p) ==
    CASE p \in {"start", "call_intent", "intent_pending", "parse_intent"} -> "intent pending"
      [] p \in {"build_prompt", "plan_pending", "parse_plan"} -> "plan pending"
      [] p = "done" -> "complete"
      [] OTHER -> "failed"

\* One step of the state machine: forward by one state, or out by a failure.
PhaseSteps == {<<"intent pending", "plan pending">>, <<"plan pending", "complete">>,
               <<"intent pending", "failed">>, <<"plan pending", "failed">>}

\* In every state: at most one call is outstanding; the request is past
\* "intent pending" only with the first call answered and its text parsed
\* into the intent; the plan call is the second call of the request.
CallsInOrder(r) ==
    /\ Cardinality(CallsIn(r, "pending")) <= 1
    /\ Phase(pc[r]) \in {"plan pending", "complete"} =>
           /\ calls[r] # <<>>
           /\ calls[r][1].kind = "intent"
           /\ calls[r][1].state = "returned"
           /\ Return(intent[r]) = ParseJson(intent_text[r])
    /\ \A i \in CallsOf(r, "plan") :
           /\ i = 2
           /\ calls[r][1].kind = "intent"
           /\ calls[r][1].state = "returned"
           /\ Return(intent[r]) = ParseJson(intent_text[r])

\* C8: within a request the plan call is issued only after the intent call
\* has returned and its text has been parsed, the two calls are never
\* outstanding together, and every change of state is intent pending ->
\* plan pending or plan pending -> complete (or the failure of the request):
\* no state is skipped or entered again.
C8_CallsStrictlySequential ==
    /\ [](\A r \in Reqs : CallsInOrder(r))
    /\ [][\A r \in Reqs :
              Phase(pc'[r]) # Phase(pc[r]) => <<Phase(pc[r]), Phase(pc'[r])>> \in PhaseSteps]_vars

\* C8: one request complete after both calls, the other waiting for the
\* answer to its plan call.
C8_Witness ==
    /\ pc["r1"] = "done"
    /\ BothAnswered("r1")
    /\ pc["r2"] = "plan_pending"
    /\ CallsIn("r2", "pending") = {2}

\* C9: a failed call ends the request with an error and no intent or plan;
\* it is the last call of the request (no retry, and no plan call after a
\* failed intent call); a request issues at most two calls, the intent call
\* and the plan call at most once each.
C9_FailedCallAbortsWithoutRetry ==
    \A r \in Reqs :
        /\ Len(calls[r]) <= 2
        /\ Cardinality(CallsOf(r, "intent")) <= 1
        /\ Cardinality(CallsOf(r, "plan")) <= 1
        /\ \A i \in CallsIn(r, "failed") :
               /\ i = Len(calls[r])
               /\ pc[r] = "failed"
               /\ response[r].status >= 400
               /\ response[r].body # "json"
               /\ response[r].intent = JNull
               /\ response[r].plan = JNull

\* C9: one request whose intent call failed, the other whose plan call
\* failed.
C9_Witness ==
    /\ pc["r1"] = "failed"
    /\ Len(calls["r1"]) = 1
    /\ calls["r1"][1].state = "failed"
    /\ pc["r2"] = "failed"
    /\ Len(calls["r2"]) = 2
    /\ calls["r2"][1].state = "returned"
    /\ calls["r2"][2].state = "failed"

FailedByConfig(r) == pc[r] = "failed" /\ env_key \in {KeyUnset, ""}

FailedByCall(r) == pc[r] = "failed" /\ CallsIn(r, "failed") # {}

\* What a caller reads off an error answer.
CauseOf(resp) ==
    IF resp.status = 500 /\ resp.detail = "ANTHROPIC_API_KEY environment variable not set"
    THEN "configuration"
    ELSE "service"

\* C10: the status and detail of an error answer tell the missing
\* credential from a failed call: the answer to a missing credential reads
\* as a configuration error, the answer to a failed call never does.
C10_ConfigErrorDistinguishable ==
    \A r \in Reqs :
        /\ FailedByConfig(r) => CauseOf(response[r]) = "configuration"
        /\ FailedByCall(r) => CauseOf(response[r]) = "service"
        /\ ~(FailedByConfig(r) /\ FailedByCall(r))

\* C10: a request answered after its plan call failed.
C10_Witness ==
    /\ FailedByCall("r1")
    /\ Len(calls["r1"]) = 2
    /\ response["r1"] = UnhandledResponse
    /\ FailedByCall("r2")
    /\ Len(calls["r2"]) = 1

(***************************************************************************)
(* The result and the second prompt.                                       *)
(***************************************************************************)
\* What a number or a string of the intent reads as.
ValueText(v) == IF v.t = "num" THEN IntChars(v.n) ELSE v.s

Written(v) == v.t \in {"num", "str"}

\* C11: a request that ended in success answers exactly the value parse_json
\* gives for the first call's text as intent and the value it gives for the
\* second call's text as plan; and the content of the second call contains
\* the user's message, the serialized intent, and the intent's total_budget
\* and destination where it has them as a number or a string.
C11_ResultIsTheTwoParses ==
    \A r \in Reqs :
        LET it == ParseJson(intent_text[r])
            pl == ParseJson(plan_text[r])
        IN  /\ pc[r] = "done" =>
                /\ it.kind = "return" /\ pl.kind = "return"
                /\ response[r] = [status |-> 200, body |-> "json", detail |-> "",
                                  intent |-> it.val, plan |-> pl.val]
            /\ CallsOf(r, "plan") # {} =>
                LET c == calls[r][2].content
                IN  /\ it.kind = "return"
                    /\ HasSub(c, message[r])
                    /\ HasSub(c, Dumps(it.val))
                    /\ \A k \in {K_total_budget, K_destination} :
                          (DictHas(it.val, k) /\ Written(DictAt(it.val, k))) =>
                              LET slot == IF k = K_total_budget THEN prompt[r].budget
                                          ELSE prompt[r].destination
                              IN  slot = ValueText(DictAt(it.val, k)) /\ HasSub(c, slot)

C11_Witness ==
    /\ pc["r1"] = "done"
    /\ intent_text["r1"] = IntentFull
    /\ plan_text["r1"] = PlanGood
    /\ response["r1"].intent = ParseJson(IntentFull).val
    /\ prompt["r1"].budget = <<"9", "0", "0">>
    /\ pc["r2"] = "plan_pending"
    /\ intent_text["r2"] = IntentEmpty

(***************************************************************************)
(* Isolation of the requests.                                              *)
(***************************************************************************)
\* All that plan() holds for one request.
Slot(r) == <<message[r], pc[r], intent_text[r], intent[r], prompt[r], plan_text[r],
             plan_data[r], calls[r], response[r]>>

SlotAfter(r) == <<message'[r], pc'[r], intent_text'[r], intent'[r], prompt'[r],
                  plan_text'[r], plan_data'[r], calls'[r], response'[r]>>

\* A finished success is a function of the request's own message and of the
\* two texts its own calls were answered with, and it issued its own two calls.
OwnResult(r) ==
    LET it == ParseJson(intent_text[r]).val
    IN  /\ Len(calls[r]) = 2
        /\ calls[r][1] = [kind |-> "intent", content |-> message[r], state |-> "returned"]
        /\ calls[r][2] = [kind |-> "plan", content |-> PromptText(PlanPrompt(message[r], it)),
                          state |-> "returned"]
        /\ response[r] = SuccessResponse(it, ParseJson(plan_text[r]).val)

\* C12: the requests are isolated under every interleaving: a step changes
\* the state of one request only and never the environment, and a request
\* that succeeded has issued its own two calls and answers what its own
\* message and its own two responses determine, also when the other request
\* carried the same message.
C12_RequestsIsolated ==
    /\ [](\A r \in Reqs : pc[r] = "done" => OwnResult(r))
    /\ [][/\ env_key' = env_key
          /\ \A r \in Reqs : SlotAfter(r) # Slot(r) =>
                \A q \in Reqs \ {r} : SlotAfter(q) = Slot(q)]_vars

C12_Witness ==
    /\ message["r1"] = message["r2"]
    /\ pc["r1"] = "done" /\ pc["r2"] = "done"
    /\ intent_text["r1"] = IntentFull
    /\ intent_text["r2"] = IntentEmpty
    /\ response["r1"].intent # response["r2"].intent
    /\ Len(calls["r1"]) = 2 /\ Len(calls["r2"]) = 2

(***************************************************************************)
(* The intent of a success is an object.                                   *)
(***************************************************************************)
\* The first call was answered and parse_json gave a value that is no object.
IntentNotObject(r) ==
    /\ Len(calls[r]) >= 1
    /\ calls[r][1].state = "returned"
    /\ pc[r] \notin {"intent_pending", "parse_intent", "build_prompt"}
    /\ ParseJson(intent_text[r]).kind = "return"
    /\ ParseJson(intent_text[r]).val.t # "obj"

\* C18: the intent a success returns is a JSON object; when parse_json gave
\* an array or a primitive for the first text, the request has failed while
\* the prompt was built: the second call was never issued and the answer
\* carries no intent and no plan.
C18_SuccessIntentIsObject ==
    \A r \in Reqs :
        /\ pc[r] = "done" => response[r].intent.t = "obj"
        /\ IntentNotObject(r) =>
              /\ pc[r] = "failed"
              /\ Len(calls[r]) = 1
              /\ response[r] = UnhandledResponse
              /\ prompt[r] = NoPrompt

C18_Witness ==
    /\ IntentNotObject("r1") /\ intent["r1"].t = "arr"
    /\ IntentNotObject("r2") /\ intent["r2"].t = "num"
    /\ pc["r1"] = "failed" /\ pc["r2"] = "failed"

(***************************************************************************)
(* Termination.                                                            *)
(***************************************************************************)
\* C13: every request eventually ends, in success or in failure, also when
\* the LLM service never answers a call.
C13_EveryRequestEnds == \A r \in Reqs : <>Finished(r)

(***************************************************************************)
(* Braces inside strings.                                                  *)
(***************************************************************************)
\* The argument is the encoding of the object and nothing else.
Bare(g) ==
    /\ g.form = "wrapped"
    /\ g.lead = <<>> /\ g.open = <<>> /\ g.close = <<>> /\ g.trail = <<>>

BraceInString(J) ==
    \E i \in 1..Len(J.kids) : J.kids[i].t = "str" /\ HasChar(J.kids[i].s, {"{", "}"})

\* C14, as claimed: for every object with a brace inside a string value,
\* parse_json of its encoding returns a value deeply equal to the object.
C14_BraceStringsRoundTrip ==
    (Returned /\ Bare(given) /\ BraceInString(given.obj)) => ret = Return(given.obj)

\* C14, amended: for every object with a brace inside a string value and no
\* triple backtick in its encoding, the direct decode of the encoding already
\* gives the object, and parse_json returns a value deeply equal to it.
C14_BraceStringsNoFenceRoundTrip ==
    (Returned /\ Bare(given) /\ BraceInString(given.obj) /\ ~HasSub(Dumps(given.obj), FENCE))
        => /\ ret = Return(given.obj)
           /\ DirectDecode(text) = ScanOk(given.obj, DirectDecode(text).end)

\* C14: the encoding of {"a": "}]"} decoded.
C14_Witness ==
    /\ Returned /\ Bare(given)
    /\ given.obj = JObj(<<KeyA>>, <<JStr(<<"}", "]">>)>>)
    /\ text = Dumps(given.obj)
    /\ ret = Return(given.obj)

(***************************************************************************)
(* Properties of the GET routes, checked under SpecHttp.                   *)
(***************************************************************************)
Answered == get_path # NoPath

\* C15: a GET whose path does not start with 'api/' is answered with the
\* static document and a success status; a GET whose path starts with
\* 'api/' and is not the health route is answered not-found, never with the
\* document.
C15_GetRouting ==
    Answered =>
        IF HasAt(get_path, 1, API_PREFIX)
        THEN get_path # P_health => (get_resp.status = 404 /\ get_resp # Document)
        ELSE get_resp = Document

\* C16: GET /api/health is answered with a success status and the body
\* {status: 'ok', service: 'wandr.ai'} whatever the environment holds, and
\* answering it issues no outbound call and changes nothing else.
C16_HealthAlwaysOk ==
    /\ [](get_path = P_health =>
            /\ get_resp = [status |-> 200, kind |-> "json",
                           body |-> <<<<"status", "ok">>, <<"service", "wandr.ai">>>>]
            /\ \A r \in Reqs : calls[r] = <<>>)
    /\ [][get_path' = P_health => UNCHANGED <<pvars, ovars, gvars, svars>>]_vars

C16_Witness ==
    /\ get_path = P_health
    /\ get_resp.status = 200
    /\ env_key = KeyUnset

(***************************************************************************)
(* Properties of the page, checked under SpecPage.                         *)
(***************************************************************************)
Outstanding == {i \in 1..Len(fetches) : fetches[i].state \in Awaiting}

\* C19: the page has at most one POST /api/plan outstanding at a time, and
\* the thinking indicator is shown exactly while one is outstanding.
C19_OneRequestOutstanding ==
    /\ Cardinality(Outstanding) <= 1
    /\ thinking <=> Outstanding # {}

(***************************************************************************)
(* Properties of the split pane, checked under SpecSplit.                  *)
(***************************************************************************)
\* C20: once splitState[uid] exists, its members are never empty and the
\* first of them is 'You', whatever was added and removed; so the amount per
\* person the pane shows is never the result of a division by zero.
C20_MembersStartWithYou ==
    /\ splitState.defined =>
          /\ splitState.members # <<>>
          /\ splitState.members[1] = YOU
          /\ ~Per(splitState).inf
    /\ pane.shown => ~pane.amt.inf /\ 0 \notin pane.removable

\* C20: two members rendered, the second under a remove button, a total of
\* 7 split in two.
C20_Witness ==
    /\ splitState.defined
    /\ Len(splitState.members) = 2
    /\ splitState.members[2] = YOU
    /\ pane.names = splitState.members
    /\ pane.removable = {1}
    /\ pane.amt = [inf |-> FALSE, n |-> 4]

\* C21: whenever the split pane is displayed, the member list, the person
\* count and the per-person amount it shows are those of splitState[uid],
\* also after a switch to another tab and back.
C21_PaneShowsSplitState ==
    pane.shown =>
        /\ splitState.defined
        /\ pane.names = splitState.members
        /\ pane.count = Len(splitState.members)
        /\ pane.amt = Per(splitState)

=============================================================================
